---- MODULE Spec2Model ----
(***************************************************************************)
(* A model of the GitHub repository MCP adapter (search / fetch tools).    *)
(*                                                                         *)
(* The repository holds several variants of the worker; the variable       *)
(* `version` says which one is deployed:                                    *)
(*   "H1"  src/src/index.ts 1-407       handleSearch / handleFetch,        *)
(*                                       module state, try/catch            *)
(*   "H0"  src/unnamed/part_000 1-398   the same tools without try/catch   *)
(*   "H2"  src/unnamed/part_002         the same tools without a branch     *)
(*                                       argument, try/catch, plain atob    *)
(*   "A10" src/unnamed/part_000 400-539 GitHubRepoAdapter 1.0.0 (Index)    *)
(*   "M12" src/src/index.ts 409-820     MyMCP 1.2.0 (Index); the 1.3.0     *)
(*                                       tools of part_000 592-664 are the  *)
(*                                       same code                          *)
(* Strings are sequences of one-character strings (longer constant chunks  *)
(* of a URL are kept as one element).                                      *)
(***************************************************************************)
EXTENDS Integers, Sequences, FiniteSets, TLC

(* ------------------------------ bounds -------------------------------- *)

\* longest item list an upstream search / list / tree response carries
MaxItems == 2
\* longest list of identifiers handed to one fetch call of the Index tools
MaxIds == 2

(* ------------------------------ strings ------------------------------- *)

\* JavaScript undefined / null (no string of the model holds this element)
Undef == <<"<undefined>">>

\* String(undefined), also what a template literal makes of undefined
StrUndefined == <<"u", "n", "d", "e", "f", "i", "n", "e", "d">>

Str(v) == IF v = Undef THEN StrUndefined ELSE v

\* a ?? b
Coalesce(a, b) == IF a = Undef THEN b ELSE a

\* a || b on strings: the empty string and undefined are falsy
OrElse(a, b) == IF a = Undef \/ a = <<>> THEN b ELSE a

Truthy(a) == a # Undef /\ a # <<>>

UpperLetters ==
  << "A", "B", "C", "D", "E", "F", "G", "H", "I", "J", "K", "L", "M",
     "N", "O", "P", "Q", "R", "S", "T", "U", "V", "W", "X", "Y", "Z" >>

LowerLetters ==
  << "a", "b", "c", "d", "e", "f", "g", "h", "i", "j", "k", "l", "m",
     "n", "o", "p", "q", "r", "s", "t", "u", "v", "w", "x", "y", "z" >>

LowerChar(c) ==
  IF \E i \in 1..Len(UpperLetters) : UpperLetters[i] = c
  THEN LowerLetters[CHOOSE i \in 1..Len(UpperLetters) : UpperLetters[i] = c]
  ELSE c

\* String.prototype.toLowerCase
ToLowerCase(str) == [i \in 1..Len(str) |-> LowerChar(str[i])]

IsSpace(c) == c = " " \/ c = "\n"

\* String.prototype.trim
Trim(str) ==
  IF \A i \in 1..Len(str) : IsSpace(str[i]) THEN <<>>
  ELSE LET a == CHOOSE i \in 1..Len(str) :
                  ~IsSpace(str[i]) /\ \A j \in 1..(i - 1) : IsSpace(str[j])
           b == CHOOSE i \in 1..Len(str) :
                  ~IsSpace(str[i]) /\ \A j \in (i + 1)..Len(str) : IsSpace(str[j])
       IN SubSeq(str, a, b)

\* String.prototype.includes
Includes(str, sub) ==
  \E i \in 0..(Len(str) - Len(sub)) :
    \A j \in 1..Len(sub) : str[i + j] = sub[j]

\* String.prototype.slice(0, n)
Slice0(str, n) == SubSeq(str, 1, IF Len(str) < n THEN Len(str) ELSE n)

RECURSIVE Split(_, _)
\* String.prototype.split(sep) for a one-character separator
Split(str, sep) ==
  IF \A i \in 1..Len(str) : str[i] # sep THEN <<str>>
  ELSE LET k == CHOOSE i \in 1..Len(str) :
                  str[i] = sep /\ \A j \in 1..(i - 1) : str[j] # sep
       IN <<SubSeq(str, 1, k - 1)>> \o Split(SubSeq(str, k + 1, Len(str)), sep)

\* msg.split("\n")[0]
FirstLine(msg) == Split(msg, "\n")[1]

TagIssue == <<"i", "s", "s", "u", "e">>
TagPr == <<"p", "r">>
TagCommit == <<"c", "o", "m", "m", "i", "t">>
TagCode == <<"c", "o", "d", "e">>

(* ------------------------------ state --------------------------------- *)

Sessions == {"s1", "s2"}

R1 == [owner |-> <<"o", "1">>, repo |-> <<"r", "1">>]

R2 == [owner |-> <<"o", "2">>, repo |-> <<"r", "2">>]

VARIABLES
  version,   \* the deployed variant of the worker
  env,       \* env.RESULTS_PER_CATEGORY as configured (Undef: unset)
  OWNER,     \* module state of the handle* variants
  REPO,
  LIMIT,
  route,     \* per session: the /<owner>/<repo> of its URL (this.props)
  index,     \* per session: this.state.index, the set of its entries
  pos,       \* per session: the input the fetch loop of the Index tools is at
  pc,        \* per session: where its current tool invocation stands
  args,      \* per session: the arguments of the current invocation
  slots,     \* per session: what the awaited upstream calls resolved to
  reqs,      \* per session: the upstream requests the invocation issued
  out        \* per session: what the last invocation returned (or threw)

vars == <<version, env, OWNER, REPO, LIMIT, route, index, pos, pc, args, slots, reqs, out>>

IsHandle == version \in {"H0", "H1", "H2"}

(* ------------------------- values of the model ------------------------ *)

NoDoc == [id |-> <<>>, title |-> <<>>, text |-> <<>>, url |-> <<>>]

NoOut == [kind |-> "none", results |-> <<>>, doc |-> NoDoc, files |-> <<>>, error |-> <<>>]

NoRec == [id |-> <<>>, title |-> <<>>, url |-> <<>>]

\* from: the search record the caller took the id from (history of the
\* caller, never read by the program)
NoArgs == [tool |-> "none", id |-> <<>>, query |-> <<>>, branch |-> Undef,
           ids |-> <<>>, path |-> Undef, from |-> NoRec]

\* what ghGet hands back when it returns the text excerpt instead of JSON
NoFields == [title |-> Undef, body |-> Undef, html_url |-> Undef,
             message |-> Undef, encoding |-> Undef, content |-> Undef]

\* (message, error: data.message and data.error of an error body)
TextData == [shape |-> "text", list |-> <<>>, sha |-> Undef, doc |-> NoFields,
             message |-> Undef, error |-> Undef]

\* no answer yet
NoResp == [code |-> "none", json |-> FALSE, parses |-> FALSE, data |-> TextData,
           text |-> <<>>]

\* one awaited upstream call (or branch scan) of handleSearch
\* (resp: the upstream answer that settled it last)
NoSlot == [st |-> "idle", shape |-> "text", raw |-> <<>>, items |-> <<>>, sha |-> Undef,
           resp |-> NoResp]

\* (rdoc: the one call a resolver of handleFetch awaits)
NoSlots == [ri |-> NoSlot, rp |-> NoSlot, rc |-> NoSlot, rcode |-> NoSlot, rdoc |-> NoSlot]

SlotNames == {"ri", "rp", "rc", "rcode"}

(* ------------------------------ helpers ------------------------------- *)

\* src/src/index.ts ghUrl: the request it addresses, read from module state
GhReq(ep, arg, n) ==
  [ep |-> ep, owner |-> OWNER, repo |-> REPO, arg |-> arg, per_page |-> n]

\* the URL string of a /repos/<owner>/<repo>/<kind>/<value> request
ApiUrl(req) ==
  <<"https://api.github.com/repos/">> \o req.owner \o <<"/">> \o req.repo
    \o <<"/", req.ep, "/">> \o req.arg

HtmlUrl(owner, repo, kind, rest) ==
  <<"https://github.com/">> \o owner \o <<"/">> \o repo \o <<"/", kind, "/">> \o rest

\* text.trim().slice(0, 300)
ExcerptMax == 300

BodyHead(r) == Slice0(Trim(r.text), ExcerptMax)

\* `GitHub ${res.status} ${res.statusText}: ` (r.code stands for both)
StatusPart(r) == <<"GitHub ", r.code, ": ">>

\* (data && (data.message || data.error)) || text.trim().slice(0, 300)
ErrorMsg(r) == OrElse(OrElse(r.data.message, r.data.error), BodyHead(r))

\* ghGet of the part_000 variant: a body that is not JSON always throws
GhGetH0(r) ==
  IF ~r.json \/ ~r.parses
  THEN [thrown |-> TRUE, error |-> StatusPart(r) \o BodyHead(r), data |-> TextData]
  ELSE IF r.code # "200"
  THEN [thrown |-> TRUE, error |-> StatusPart(r) \o ErrorMsg(r), data |-> TextData]
  ELSE [thrown |-> FALSE, error |-> <<>>, data |-> r.data]

\* ghGet of src/src/index.ts: a successful non-JSON answer is parsed, or
\* returned as its text excerpt
GhGetH1(r) ==
  IF ~r.json
  THEN IF r.code # "200"
       THEN [thrown |-> TRUE, error |-> StatusPart(r) \o BodyHead(r), data |-> TextData]
       ELSE [thrown |-> FALSE, error |-> <<>>,
             data |-> IF r.parses THEN r.data ELSE TextData]
  ELSE IF ~r.parses
       THEN [thrown |-> TRUE, error |-> StatusPart(r) \o BodyHead(r), data |-> TextData]
  ELSE IF r.code # "200"
       THEN [thrown |-> TRUE, error |-> StatusPart(r) \o ErrorMsg(r), data |-> TextData]
       ELSE [thrown |-> FALSE, error |-> <<>>, data |-> r.data]

\* a ghGet that takes a JSON answer without an item list for a failure
GhGetNeedsList(r) ==
  IF r.data.shape # "list"
  THEN [thrown |-> TRUE, error |-> StatusPart(r) \o BodyHead(r), data |-> TextData]
  ELSE GhGetH0(r)

ghGet(r) == IF version = "H0" THEN GhGetH0(r) ELSE GhGetH1(r)

\* how a handler of the deployed variant ends when something it awaits throws:
\* handleSearch / handleFetch of index.ts catch and return {error}; the
\* handlers of part_002 do the same; the part_000 handlers and the Index
\* tools have no try/catch
Failed(msg) ==
  IF version \in {"H1", "H2"}
  THEN [NoOut EXCEPT !.kind = "error", !.error = msg]
  ELSE [NoOut EXCEPT !.kind = "thrown", !.error = msg]

Digits == {"0", "1", "2", "3", "4", "5", "6", "7", "8", "9"}

DigitVal(c) ==
  CASE c = "0" -> 0 [] c = "1" -> 1 [] c = "2" -> 2 [] c = "3" -> 3 [] c = "4" -> 4
    [] c = "5" -> 5 [] c = "6" -> 6 [] c = "7" -> 7 [] c = "8" -> 8 [] OTHER -> 9

RECURSIVE DigitsValue(_, _)
DigitsValue(str, acc) ==
  IF str = <<>> \/ Head(str) \notin Digits THEN acc
  ELSE DigitsValue(Tail(str), acc * 10 + DigitVal(Head(str)))

RECURSIVE TrimStart(_)
TrimStart(str) ==
  IF str # <<>> /\ IsSpace(Head(str)) THEN TrimStart(Tail(str)) ELSE str

\* parseInt(raw, 10): leading white space, a sign, then the digits it finds
ParseInt(raw) ==
  LET t == TrimStart(raw)
      signed == t # <<>> /\ Head(t) \in {"-", "+"}
      body == IF signed THEN Tail(t) ELSE t
  IN IF body = <<>> \/ Head(body) \notin Digits
     THEN [nan |-> TRUE, n |-> 0]
     ELSE [nan |-> FALSE,
           n |-> (IF signed /\ Head(t) = "-" THEN -1 ELSE 1) * DigitsValue(body, 0)]

\* a LIMIT that takes whatever parseInt gives
ParseLimitUnguarded(e) == ParseInt(Coalesce(e, <<"5">>)).n

DefaultLimit == 5

\* default.fetch: LIMIT = Number.isFinite(n) && n > 0 ? n : 5
ParseLimit(e) ==
  LET n == ParseInt(Coalesce(e, <<"5">>))
  IN IF ~n.nan /\ n.n > 0 THEN n.n ELSE DefaultLimit

\* seq.flatMap(F), F giving a list of zero or one records
FlatMap(F(_), seq) ==
  LET f[i \in 0..Len(seq)] == IF i = 0 THEN <<>> ELSE f[i - 1] \o F(seq[i])
  IN f[Len(seq)]

(* --------------------------- category mappers ------------------------- *)

\* part_000 checks only `!it`; index.ts also returns null without a number
mapIssueItem(it) ==
  IF version # "H0" /\ it.number = Undef THEN <<>>
  ELSE << [id |-> TagIssue \o <<":">> \o Str(it.number),
           title |-> Coalesce(it.title, <<"Issue #">> \o Str(it.number)),
           url |-> it.html_url] >>

mapPrItem(it) ==
  IF version # "H0" /\ it.number = Undef THEN <<>>
  ELSE << [id |-> TagPr \o <<":">> \o Str(it.number),
           title |-> Coalesce(it.title, <<"PR #">> \o Str(it.number)),
           url |-> it.html_url] >>

mapCommitItem(it) ==
  IF ~Truthy(it.sha) THEN <<>>
  ELSE << [id |-> TagCommit \o <<":">> \o it.sha,
           title |-> OrElse(FirstLine(Coalesce(it.message, <<>>)),
                            <<"Commit ">> \o Slice0(it.sha, 7)),
           url |-> IF version = "H0" THEN it.html_url
                   ELSE OrElse(it.html_url, HtmlUrl(OWNER, REPO, "commit", it.sha))] >>

mapCodeItemFromSearch(it) ==
  IF ~Truthy(it.sha) THEN <<>>
  ELSE << [id |-> TagCode \o <<":">> \o it.sha,
           title |-> Coalesce(it.path, it.sha),
           url |-> it.html_url] >>

\* encodeURI over the characters of the model: a space is escaped, letters,
\* digits, '.', '-', '_' and the reserved '/' and ':' are kept
EncodeURI(str) ==
  FlatMap(LAMBDA c : IF c = " " THEN <<"%20">> ELSE <<c>>, str)

\* encodeURIComponent also escapes the reserved characters
EncodeURIComponent(str) ==
  FlatMap(LAMBDA c : CASE c = " " -> <<"%20">> [] c = "/" -> <<"%2F">>
                       [] c = ":" -> <<"%3A">> [] OTHER -> <<c>>, str)

\* the blob URL is built from OWNER / REPO as they are when the entry is mapped
mapCodeItemFromTree(entry, branch) ==
  IF entry.type # "blob" \/ ~Truthy(entry.sha) \/ ~Truthy(entry.path) THEN <<>>
  ELSE << [id |-> TagCode \o <<":">> \o entry.sha,
           title |-> entry.path,
           url |-> HtmlUrl(OWNER, REPO, "blob",
                           EncodeURIComponent(branch) \o <<"/">> \o EncodeURI(entry.path))] >>

\* a composition that pushes the code records before the commit records
buildSearchResultsCodeFirst(ri, rp, rc, rcode) ==
  FlatMap(mapIssueItem, ri) \o FlatMap(mapPrItem, rp)
    \o FlatMap(mapCodeItemFromSearch, rcode) \o FlatMap(mapCommitItem, rc)

\* index.ts 269-285, part_000 buildSearchResults
buildSearchResults(ri, rp, rc, rcode) ==
  FlatMap(mapIssueItem, ri) \o FlatMap(mapPrItem, rp)
    \o FlatMap(mapCommitItem, rc) \o FlatMap(mapCodeItemFromSearch, rcode)

(* ----------------------------- branch scans --------------------------- *)

\* a commit scan that never breaks out of its loop
CommitScanNoBreak(commits, query) ==
  LET q == ToLowerCase(Trim(query))
      sel == SelectSeq(commits, LAMBDA c :
               Truthy(c.sha) /\ (q = <<>> \/ Includes(c.sha, q)
                  \/ Includes(ToLowerCase(Coalesce(c.message, <<>>)), q)))
  IN [i \in 1..Len(sel) |->
        [id |-> TagCommit \o <<":">> \o sel[i].sha,
         title |-> OrElse(FirstLine(Coalesce(sel[i].message, <<>>)),
                          <<"Commit ">> \o Slice0(sel[i].sha, 7)),
         url |-> HtmlUrl(OWNER, REPO, "commit", sel[i].sha)]]

\* a code scan that breaks one record too late (> instead of >=)
CodeScanLateBreak(entries, branch, query) ==
  LET q == ToLowerCase(Trim(query))
      f[i \in 0..Len(entries)] ==
        IF i = 0 THEN <<>>
        ELSE IF Len(f[i - 1]) > LIMIT THEN f[i - 1]
        ELSE IF entries[i].type = "blob" /\ Truthy(entries[i].path)
                  /\ (q = <<>> \/ Includes(ToLowerCase(entries[i].path), q))
             THEN f[i - 1] \o mapCodeItemFromTree(entries[i], branch)
             ELSE f[i - 1]
  IN f[Len(entries)]

\* the loop of searchCommitsOnBranch over the fetched window
CommitScan(commits, query) ==
  LET q == ToLowerCase(Trim(query))
      step(acc, c) ==
        LET sha == IF Truthy(c.sha) THEN c.sha ELSE <<>>
            msg == IF Truthy(c.message) THEN c.message ELSE <<>>
        IN IF sha = <<>> THEN acc
           ELSE IF q = <<>> \/ Includes(ToLowerCase(msg), q) \/ Includes(sha, q)
                THEN LET o == Append(acc.out,
                                 [id |-> TagCommit \o <<":">> \o sha,
                                  title |-> OrElse(FirstLine(msg),
                                                   <<"Commit ">> \o Slice0(sha, 7)),
                                  url |-> HtmlUrl(OWNER, REPO, "commit", sha)])
                     IN [out |-> o, stop |-> Len(o) >= LIMIT]
                ELSE acc
      f[i \in 0..Len(commits)] ==
        IF i = 0 THEN [out |-> <<>>, stop |-> FALSE]
        ELSE IF f[i - 1].stop THEN f[i - 1] ELSE step(f[i - 1], commits[i])
  IN f[Len(commits)].out

\* the loop of searchCodePathsOnBranch over the tree entries
CodeScan(entries, branch, query) ==
  LET q == ToLowerCase(Trim(query))
      step(acc, e) ==
        IF e.type # "blob" \/ ~Truthy(e.path) THEN acc
        ELSE IF q = <<>> \/ Includes(ToLowerCase(e.path), q)
             THEN LET o == acc.out \o mapCodeItemFromTree(e, branch)
                  IN [out |-> o, stop |-> Len(o) >= LIMIT]
             ELSE acc
      f[i \in 0..Len(entries)] ==
        IF i = 0 THEN [out |-> <<>>, stop |-> FALSE]
        ELSE IF f[i - 1].stop THEN f[i - 1] ELSE step(f[i - 1], entries[i])
  IN f[Len(entries)].out

(* ------------------------------ base64 -------------------------------- *)

RemoveNewlines(str) == SelectSeq(str, LAMBDA c : c # "\n")

\* atob over the payloads of the model: "QQ==" is "A", "!" is not base64
AtobThrows(b64) == \E i \in 1..Len(b64) : b64[i] \notin {"Q", "="}

Atob(b64) == IF b64 = <<>> THEN <<>> ELSE <<"A">>

safeAtob(b64) ==
  LET c == RemoveNewlines(b64) IN IF AtobThrows(c) THEN <<>> ELSE Atob(c)

(* ------------------- worker entry of the handle variants -------------- *)

\* the input schemas of index.ts: query and id are z.string().min(1); the
\* schemas of part_000 are plain z.string()
ValidInput(a) ==
  version = "H1" =>
    /\ a.tool = "search" => a.query # <<>>
    /\ a.tool = "fetch" => a.id # <<>>

\* default.fetch: a request of session s on its route; sets the module
\* state and hands the tool call to the agent
Request(s, a) ==
  /\ IsHandle
  /\ pc[s] = "idle"
  /\ ValidInput(a)
  /\ OWNER' = route[s].owner
  /\ REPO' = route[s].repo
  /\ LIMIT' = ParseLimit(env)
  /\ pc' = [pc EXCEPT ![s] = "routed"]
  /\ args' = [args EXCEPT ![s] = a]
  /\ UNCHANGED <<version, env, route, index, pos, slots, reqs, out>>

\* the tool wrappers of index.ts: branch && branch.trim() ? branch.trim() : undefined
\* (part_000 passes the branch as it is, the tools of part_002 take none)
BranchArg(b) ==
  IF version = "H2" THEN Undef
  ELSE IF version = "H0" THEN b
  ELSE IF Truthy(b) /\ Truthy(Trim(b)) THEN Trim(b) ELSE Undef

(* ------------------------------ handleFetch --------------------------- *)

\* a dispatch that compares the tag without regard to case
FetchKindAnyCase(id) == ToLowerCase(Split(id, ":")[1])

FetchKind(id) == Split(id, ":")[1]

FetchValue(id) == IF Len(Split(id, ":")) >= 2 THEN Split(id, ":")[2] ELSE Undef

KnownKinds == {TagIssue, TagPr, TagCommit, TagCode}

\* a dispatch that sends a pull request id to the issue resolver
EndpointPrAsIssue(kind) ==
  CASE kind = TagIssue -> "issues"
    [] kind = TagPr -> "issues"
    [] kind = TagCommit -> "commits"
    [] OTHER -> "git/blobs"

Endpoint(kind) ==
  CASE kind = TagIssue -> "issues"
    [] kind = TagPr -> "pulls"
    [] kind = TagCommit -> "commits"
    [] OTHER -> "git/blobs"

UnknownDoc(id) ==
  [id |-> id, title |-> <<"Unknown ID">>,
   text |-> <<"Use: issue, pr, commit, or code">>, url |-> <<>>]

\* handleFetch up to its await: split the id, dispatch on the tag
\* a resolver request that asks for the value at the branch
ResolverReqAtBranch(kind, value, b) ==
  GhReq(Endpoint(kind), Str(value) \o (IF Truthy(b) THEN <<"?ref=">> \o b ELSE <<>>), 0)

\* the request of the resolver of a kind; handleFetch(id, branch) hands the
\* resolver the value only
ResolverReq(kind, value, b) == GhReq(Endpoint(kind), Str(value), 0)

FetchBegin(s) ==
  /\ IsHandle
  /\ pc[s] = "routed"
  /\ args[s].tool = "fetch"
  /\ LET kind == FetchKind(args[s].id)
         value == FetchValue(args[s].id)
     IN IF kind \in KnownKinds
        THEN /\ reqs' = [reqs EXCEPT ![s] =
                  <<ResolverReq(kind, value, BranchArg(args[s].branch))>>]
             /\ pc' = [pc EXCEPT ![s] = "fetchWait"]
             /\ out' = [out EXCEPT ![s] = NoOut]
        ELSE /\ reqs' = [reqs EXCEPT ![s] = <<>>]
             /\ pc' = [pc EXCEPT ![s] = "idle"]
             /\ out' = [out EXCEPT ![s] =
                          [NoOut EXCEPT !.kind = "doc", !.doc = UnknownDoc(args[s].id)]]
  /\ slots' = [slots EXCEPT ![s] = NoSlots]
  /\ UNCHANGED <<version, env, OWNER, REPO, LIMIT, route, index, pos, args>>

fetchIssue(value, url, j) ==
  [id |-> TagIssue \o <<":">> \o Str(value),
   title |-> Coalesce(j.title, <<"Issue #">> \o Str(value)),
   text |-> Coalesce(j.body, <<>>),
   url |-> Coalesce(j.html_url, url)]

fetchPr(value, url, j) ==
  [id |-> TagPr \o <<":">> \o Str(value),
   title |-> Coalesce(j.title, <<"PR #">> \o Str(value)),
   text |-> Coalesce(j.body, <<>>),
   url |-> Coalesce(j.html_url, url)]

\* value.slice(0, 7) is evaluated only when the message has no first line
fetchCommitThrows(value, j) ==
  value = Undef /\ FirstLine(Coalesce(j.message, <<>>)) = <<>>

fetchCommit(value, url, j) ==
  [id |-> TagCommit \o <<":">> \o Str(value),
   title |-> OrElse(FirstLine(Coalesce(j.message, <<>>)),
                    <<"Commit ">> \o Slice0(Str(value), 7)),
   text |-> Coalesce(j.message, <<>>),
   url |-> Coalesce(j.html_url, url)]

\* part_002 calls atob without a guard
fetchCodeBlobThrows(j) ==
  /\ version = "H2"
  /\ j.encoding = <<"base64">> /\ Truthy(j.content)
  /\ AtobThrows(RemoveNewlines(j.content))

fetchCodeBlob(value, url, j) ==
  [id |-> TagCode \o <<":">> \o Str(value),
   title |-> <<"blob ">> \o Str(value),
   text |-> IF j.encoding = <<"base64">> /\ Truthy(j.content)
            THEN IF version = "H2" THEN Atob(RemoveNewlines(j.content))
                 ELSE safeAtob(j.content)
            ELSE <<>>,
   url |-> url]

\* the awaited ghGet of the resolver answers; the resolver builds the Doc
FetchRespond(s, r) ==
  /\ IsHandle
  /\ pc[s] = "fetchWait"
  /\ LET kind == FetchKind(args[s].id)
         value == FetchValue(args[s].id)
         url == ApiUrl(reqs[s][1])
         g == ghGet(r)
         j == g.data.doc
         doc == CASE kind = TagIssue -> fetchIssue(value, url, j)
                  [] kind = TagPr -> fetchPr(value, url, j)
                  [] kind = TagCommit -> fetchCommit(value, url, j)
                  [] OTHER -> fetchCodeBlob(value, url, j)
     IN /\ out' = [out EXCEPT ![s] =
                  IF g.thrown THEN Failed(g.error)
                  ELSE IF kind = TagCommit /\ fetchCommitThrows(value, j)
                       THEN Failed(<<"TypeError">>)
                  ELSE IF kind = TagCode /\ fetchCodeBlobThrows(j)
                       THEN Failed(<<"InvalidCharacterError">>)
                       ELSE [NoOut EXCEPT !.kind = "doc", !.doc = doc]]
        /\ slots' = [slots EXCEPT ![s].rdoc =
                       [NoSlot EXCEPT !.st = IF g.thrown THEN "failed" ELSE "done",
                                      !.resp = r]]
  /\ pc' = [pc EXCEPT ![s] = "idle"]
  /\ UNCHANGED <<version, env, OWNER, REPO, LIMIT, route, index, pos, args, reqs>>

(* ------------------------------ handleSearch -------------------------- *)

\* per_page of the branch commit window
CommitWindow == 100

\* a Promise.all that never settles
NeverDone(sl) == FALSE

AllDone(sl) == \A k \in SlotNames : sl[k].st = "done"

\* handleSearch up to its await: the URLs are built from the module state as
\* it is now and the four calls of Promise.all are started
SearchBegin(s) ==
  /\ IsHandle
  /\ pc[s] = "routed"
  /\ args[s].tool = "search"
  /\ LET b == BranchArg(args[s].branch)
         q == args[s].query
     IN reqs' = [reqs EXCEPT ![s] =
          IF Truthy(b)
          THEN << GhReq("search/issues is:issue", q, LIMIT),
                  GhReq("search/issues is:pr", q, LIMIT),
                  GhReq("commits", b, CommitWindow),
                  GhReq("branches", b, 0) >>
          ELSE << GhReq("search/issues is:issue", q, LIMIT),
                  GhReq("search/issues is:pr", q, LIMIT),
                  GhReq("search/commits", q, LIMIT),
                  GhReq("search/code", q, LIMIT) >>]
  /\ slots' = [slots EXCEPT ![s] =
       [k \in DOMAIN NoSlots |->
          IF k \in SlotNames THEN [NoSlot EXCEPT !.st = "wait"] ELSE NoSlot]]
  /\ pc' = [pc EXCEPT ![s] = "searchWait"]
  /\ out' = [out EXCEPT ![s] = NoOut]
  /\ UNCHANGED <<version, env, OWNER, REPO, LIMIT, route, index, pos, args>>

\* a tree request for the default head, whatever the branch resolved to
TreeReqOfHead(sha) == GhReq("git/trees", <<"HEAD">>, 0)

\* the tree request of searchCodePathsOnBranch
TreeReq(sha) == GhReq("git/trees", sha, 0)

\* index.ts 188 awaits ghGet(url) twice: once for Array.isArray, once for the value
CommitListTwice == version = "H1"

\* a composition that leaves the pr records out of a branch search
SearchResultsNoBranchPr(sl, b) ==
  IF Truthy(b)
  THEN FlatMap(mapIssueItem, sl.ri.raw) \o sl.rc.items \o sl.rcode.items
  ELSE buildSearchResults(sl.ri.raw, sl.rp.raw, sl.rc.raw, sl.rcode.raw)

\* the results handleSearch composes once the four awaited values are there
SearchResults(sl, b) ==
  IF Truthy(b)
  THEN FlatMap(mapIssueItem, sl.ri.raw) \o FlatMap(mapPrItem, sl.rp.raw)
         \o sl.rc.items \o sl.rcode.items
  ELSE buildSearchResults(sl.ri.raw, sl.rp.raw, sl.rc.raw, sl.rcode.raw)

\* one awaited upstream call of handleSearch answers; its continuation runs:
\* a search slot keeps the JSON, the branch commit scan filters the window
\* (index.ts asks for it a second time first), the branch code scan asks for
\* the tree of the head it got and then filters it. Once the four values are
\* there the handler composes and returns; the first rejection ends it
\* (the slot of the rejected call is marked "failed").
SearchRespond(s, k, r) ==
  /\ IsHandle
  /\ pc[s] = "searchWait"
  /\ slots[s][k].st \in {"wait", "wait2"}
  /\ LET b == BranchArg(args[s].branch)
         q == args[s].query
         cur == slots[s][k]
         g == ghGet(r)
         d == g.data
         lst == IF d.shape = "list" THEN d.list ELSE <<>>
         plain == [cur EXCEPT !.st = "done", !.shape = d.shape, !.raw = lst, !.resp = r]
         firstOfTwo == CommitListTwice /\ cur.st = "wait"
         commitStep ==
           IF firstOfTwo
           THEN [cur EXCEPT !.st = IF d.shape = "list" THEN "wait2" ELSE "done",
                            !.shape = d.shape, !.resp = r]
           ELSE [cur EXCEPT !.st = "done", !.shape = d.shape, !.raw = lst,
                            !.items = CommitScan(lst, q), !.resp = r]
         codeStep ==
           IF cur.st = "wait"
           THEN IF Truthy(d.sha)
                THEN [cur EXCEPT !.st = "wait2", !.sha = d.sha, !.resp = r]
                ELSE [cur EXCEPT !.st = "done", !.resp = r]
           ELSE [cur EXCEPT !.st = "done", !.shape = d.shape, !.raw = lst,
                            !.items = CodeScan(lst, b, q), !.resp = r]
         scanning == Truthy(b) /\ k \in {"rc", "rcode"}
         new == IF ~scanning THEN plain
                ELSE IF k = "rc" THEN commitStep ELSE codeStep
         \* for (const c of commits) over a JSON value that is not iterable
         typeError == Truthy(b) /\ k = "rc" /\ ~firstOfTwo /\ d.shape = "nolist"
         ns == [slots[s] EXCEPT ![k] = new]
         more == IF ~scanning \/ new.st # "wait2" THEN <<>>
                 ELSE IF k = "rc" THEN <<reqs[s][3]>>
                 ELSE <<TreeReq(new.sha)>>
     IN IF g.thrown \/ typeError
        THEN /\ out' = [out EXCEPT ![s] =
                          Failed(IF g.thrown THEN g.error ELSE <<"TypeError">>)]
             /\ pc' = [pc EXCEPT ![s] = "idle"]
             /\ slots' = [slots EXCEPT ![s][k] = [cur EXCEPT !.st = "failed", !.resp = r]]
             /\ UNCHANGED reqs
        ELSE /\ slots' = [slots EXCEPT ![s] = ns]
             /\ reqs' = [reqs EXCEPT ![s] = reqs[s] \o more]
             /\ IF AllDone(ns)
                THEN /\ out' = [out EXCEPT ![s] =
                                  [NoOut EXCEPT !.kind = "results",
                                                !.results = SearchResults(ns, b)]]
                     /\ pc' = [pc EXCEPT ![s] = "idle"]
                ELSE UNCHANGED <<out, pc>>
  /\ UNCHANGED <<version, env, OWNER, REPO, LIMIT, route, index, pos, args>>

(* -------- the search / fetch tools of the Index variants -------------- *)

\* a write that replaces the whole Index by the one entry
PutAlone(idx, e) == {e}

\* this.state.index[id] = entry
Put(idx, e) == { x \in idx : x.id # e.id } \cup {e}

Has(idx, id) == \E e \in idx : e.id = id

Get(idx, id) == CHOOSE e \in idx : e.id = id

\* the fetch schema of 1.2.0 is z.array(z.string()).min(1)
ValidIndexInput(a) ==
  (version = "M12" /\ a.tool = "fetch") => a.ids # <<>>

\* default export of the Index variants: the route becomes this.props and the
\* tool call goes to the agent; no module state is written
IndexRequest(s, a) ==
  /\ ~IsHandle
  /\ pc[s] = "idle"
  /\ ValidIndexInput(a)
  /\ pc' = [pc EXCEPT ![s] = "routed"]
  /\ args' = [args EXCEPT ![s] = a]
  /\ UNCHANGED <<version, env, OWNER, REPO, LIMIT, route, index, pos, slots, reqs, out>>

PropsReq(s, ep, arg, n) ==
  [ep |-> ep, owner |-> route[s].owner, repo |-> route[s].repo, arg |-> arg, per_page |-> n]

\* the search tool up to its await of the code search
IndexSearchBegin(s) ==
  /\ ~IsHandle
  /\ pc[s] = "routed"
  /\ args[s].tool = "search"
  /\ reqs' = [reqs EXCEPT ![s] =
       << PropsReq(s, "search/code", args[s].query, IF version = "A10" THEN 10 ELSE 0) >>]
  /\ pc' = [pc EXCEPT ![s] = "indexSearchWait"]
  /\ out' = [out EXCEPT ![s] = NoOut]
  /\ UNCHANGED <<version, env, OWNER, REPO, LIMIT, route, index, pos, args, slots>>

\* an Index keyed by the path of the item
IndexKeyByPath(it) == Str(it.path)

\* the key of this.state.index[id]: id is String(it.sha)
IndexKey(it) == Str(it.sha)

\* an Index kept in one place for every session
StoreIndexShared(s, idx) == [t \in Sessions |-> idx]

\* this.state of the agent instance of session s takes the written Index
StoreIndex(s, idx) == [index EXCEPT ![s] = idx]

\* the callback of (data.items ?? []).map: writes the Index, then builds the
\* record; 1.0.0 reads it.repository.full_name and throws when there is no
\* repository, after the write
IndexMap(s, items) ==
  LET step(acc, it) ==
        LET id == IF version = "M12" THEN Str(it.sha) ELSE it.sha
            e == [id |-> IndexKey(it), owner |-> route[s].owner, repo |-> route[s].repo,
                  path |-> it.path, sha |-> it.sha, html_url |-> it.html_url]
            name == IF it.full_name = Undef
                    THEN route[s].owner \o <<"/">> \o route[s].repo
                    ELSE it.full_name
            rec == [id |-> id, title |-> name \o <<"/">> \o Str(it.path),
                    url |-> it.html_url, path |-> it.path]
        IN IF version = "A10" /\ it.full_name = Undef
           THEN [idx |-> Put(acc.idx, e), res |-> acc.res, thrown |-> TRUE]
           ELSE [idx |-> Put(acc.idx, e), res |-> Append(acc.res, rec), thrown |-> FALSE]
      f[i \in 0..Len(items)] ==
        IF i = 0 THEN [idx |-> index[s], res |-> <<>>, thrown |-> FALSE]
        ELSE IF f[i - 1].thrown THEN f[i - 1] ELSE step(f[i - 1], items[i])
  IN f[Len(items)]

\* what ghJson throws for a bad status: the whole body follows the url (the
\* search tool of 1.0.0 names the status only)
GhJsonError(r, req) ==
  IF version = "A10" THEN <<"GitHub search failed: ", r.code>>
  ELSE <<"GitHub API ", r.code, " for ">> \o ApiUrl(req)
         \o (IF r.text # <<>> THEN <<"\n">> \o r.text ELSE <<>>)

\* what ghText throws for a bad status (1.0.0: the two fetches of its loop)
GhTextError(r, req) ==
  IF version = "A10"
  THEN << IF req.ep = "git/blobs" THEN "Blob fetch failed: "
          ELSE "Contents fetch failed: ", r.code >>
  ELSE <<"GitHub API ", r.code, " for ">> \o ApiUrl(req)

\* the code search answers: ghJson / r.json() throw on a bad status or body
IndexSearchRespond(s, r) ==
  /\ ~IsHandle
  /\ pc[s] = "indexSearchWait"
  /\ LET bad == r.code # "200" \/ ~r.parses
         items == IF r.data.shape = "list" THEN r.data.list ELSE <<>>
         m == IndexMap(s, items)
     IN IF bad
        THEN /\ out' = [out EXCEPT ![s] =
                  Failed(IF r.code # "200" THEN GhJsonError(r, reqs[s][1])
                         ELSE <<"SyntaxError">>)]
             /\ UNCHANGED index
        ELSE /\ index' = StoreIndex(s, m.idx)
             /\ out' = [out EXCEPT ![s] =
                  IF m.thrown THEN Failed(<<"TypeError">>)
                  ELSE [NoOut EXCEPT !.kind = "results", !.results = m.res]]
  /\ pc' = [pc EXCEPT ![s] = "idle"]
  /\ UNCHANGED <<version, env, OWNER, REPO, LIMIT, route, pos, args, slots, reqs>>

\* the first position from p on at which the fetch loop awaits an upstream
\* answer: 1.0.0 skips the ids that are not in the Index (`continue`) and
\* fetches args.path after the ids (position Len(ids) + 1); 0: the loop is over
NextAwait(s, p) ==
  LET ids == args[s].ids
      cand == { j \in p..Len(ids) : version = "M12" \/ Has(index[s], ids[j]) }
  IN IF cand # {} THEN CHOOSE j \in cand : \A k \in cand : j <= k
     ELSE IF version = "A10" /\ Truthy(args[s].path) /\ p <= Len(ids) + 1
          THEN Len(ids) + 1
          ELSE 0

\* whether the token at position j is redeemed by blob hash
ByHash(s, j) ==
  /\ j <= Len(args[s].ids)
  /\ Has(index[s], args[s].ids[j])
  /\ version = "M12" => Truthy(Get(index[s], args[s].ids[j]).sha)

\* the upstream request of position j
FetchReq(s, j) ==
  IF ByHash(s, j)
  THEN PropsReq(s, "git/blobs", Str(Get(index[s], args[s].ids[j]).sha), 0)
  ELSE IF j <= Len(args[s].ids)
       THEN PropsReq(s, "contents@HEAD", EncodeURIComponent(args[s].ids[j]), 0)
       ELSE PropsReq(s, "contents@HEAD", EncodeURIComponent(args[s].path), 0)

\* the entry pushed for position j once its content is there
FileOf(s, j, content) ==
  IF ByHash(s, j)
  THEN LET meta == Get(index[s], args[s].ids[j])
       IN [path |-> meta.path, source_url |-> meta.html_url, content |-> content]
  ELSE LET token == IF j <= Len(args[s].ids) THEN args[s].ids[j] ELSE args[s].path
       IN [path |-> token,
           source_url |-> HtmlUrl(route[s].owner, route[s].repo, "blob",
                                  <<"HEAD", "/">> \o token),
           content |-> content]

\* the fetch tool up to its first await (or to its return when it awaits nothing)
IndexFetchBegin(s) ==
  /\ ~IsHandle
  /\ pc[s] = "routed"
  /\ args[s].tool = "fetch"
  /\ LET j == NextAwait(s, 1)
     IN IF j = 0
        THEN /\ out' = [out EXCEPT ![s] = [NoOut EXCEPT !.kind = "files"]]
             /\ pc' = [pc EXCEPT ![s] = "idle"]
             /\ reqs' = [reqs EXCEPT ![s] = <<>>]
             /\ pos' = [pos EXCEPT ![s] = 0]
        ELSE /\ out' = [out EXCEPT ![s] = NoOut]
             /\ pc' = [pc EXCEPT ![s] = "indexFetchWait"]
             /\ reqs' = [reqs EXCEPT ![s] = << FetchReq(s, j) >>]
             /\ pos' = [pos EXCEPT ![s] = j]
  /\ slots' = [slots EXCEPT ![s] = NoSlots]
  /\ UNCHANGED <<version, env, OWNER, REPO, LIMIT, route, index, args>>

\* a lookup that takes the entry out of the Index
IndexLookupRemoves(s, j) ==
  [index EXCEPT ![s] = { e \in index[s] : j > Len(args[s].ids) \/ e.id # args[s].ids[j] }]

\* the Index after `const meta = this.state.index[token]` for position j:
\* the lookup reads it
IndexLookup(s, j) == index

\* a failure that returns the entries pushed so far
FetchFailureKeepsFiles(s, msg) == [out[s] EXCEPT !.kind = "files"]

\* the throw of ghText leaves the tool: the local list `out` goes with it
FetchFailure(s, msg) == Failed(msg)

\* the awaited content answers: a bad status throws out of the tool, a good
\* one pushes the entry and the loop goes on to its next await or returns
IndexFetchRespond(s, r) ==
  /\ ~IsHandle
  /\ pc[s] = "indexFetchWait"
  /\ slots' = [slots EXCEPT ![s].rdoc =
       [NoSlot EXCEPT !.st = IF r.code # "200" THEN "failed" ELSE "done", !.resp = r]]
  /\ IF r.code # "200"
     THEN /\ out' = [out EXCEPT ![s] =
                      FetchFailure(s, GhTextError(r, reqs[s][Len(reqs[s])]))]
          /\ pc' = [pc EXCEPT ![s] = "idle"]
          /\ pos' = [pos EXCEPT ![s] = 0]
          /\ UNCHANGED reqs
     ELSE LET files == Append(out[s].files, FileOf(s, pos[s], r.text))
              j == NextAwait(s, pos[s] + 1)
          IN IF j = 0
             THEN /\ out' = [out EXCEPT ![s] = [NoOut EXCEPT !.kind = "files", !.files = files]]
                  /\ pc' = [pc EXCEPT ![s] = "idle"]
                  /\ pos' = [pos EXCEPT ![s] = 0]
                  /\ UNCHANGED reqs
             ELSE /\ out' = [out EXCEPT ![s] = [NoOut EXCEPT !.files = files]]
                  /\ reqs' = [reqs EXCEPT ![s] = Append(reqs[s], FetchReq(s, j))]
                  /\ pos' = [pos EXCEPT ![s] = j]
                  /\ UNCHANGED pc
  /\ index' = IndexLookup(s, pos[s])
  /\ UNCHANGED <<version, env, OWNER, REPO, LIMIT, route, args>>

(* --------------------------- inputs of the model ---------------------- *)

\* (text: the raw body, data: what JSON.parse makes of it; the text of a
\* good answer is read by nothing but JSON.parse)
OkJson(d) ==
  [code |-> "200", json |-> TRUE, parses |-> TRUE, data |-> d, text |-> <<"{}">>]

\* answers ghGet does not get its JSON from: an error status (with a JSON
\* or with a text body), a body that does not parse, a text answer
BadResps ==
  { [code |-> "500", json |-> TRUE, parses |-> TRUE, data |-> TextData, text |-> <<"{}">>],
    [code |-> "500", json |-> FALSE, parses |-> FALSE, data |-> TextData, text |-> <<"e">>],
    [code |-> "200", json |-> TRUE, parses |-> FALSE, data |-> TextData, text |-> <<"e">>],
    [code |-> "200", json |-> FALSE, parses |-> FALSE, data |-> TextData, text |-> <<"e">>] }

\* a body text longer than the excerpt
LongText == [i \in 1..(ExcerptMax + 1) |-> "x"]

\* failed answers with a long body: plain text, and a JSON error object
\* whose message is the long text
LongResps ==
  { [code |-> "500", json |-> FALSE, parses |-> FALSE, data |-> TextData,
     text |-> <<" ">> \o LongText],
    [code |-> "500", json |-> TRUE, parses |-> TRUE,
     data |-> [TextData EXCEPT !.message = LongText],
     text |-> <<"{\"message\":\"">> \o LongText \o <<"\"}">>] }

DocData(j) == [TextData EXCEPT !.shape = "nolist", !.doc = j]

ListData(l) == [TextData EXCEPT !.shape = "list", !.list = l]

NoListData == [TextData EXCEPT !.shape = "nolist"]

HeadData(sha) == [TextData EXCEPT !.shape = "nolist", !.sha = sha]

\* lists of at most n elements of S
ListsOf(S, n) == UNION { [1..m -> S] : m \in 0..n }

FetchPayloads ==
  { [title |-> <<"T">>, body |-> <<"B">>, html_url |-> <<"h">>,
     message |-> <<"m", "\n", "n">>, encoding |-> <<"base64">>,
     content |-> <<"Q", "Q", "\n", "=", "=">>],
    [NoFields EXCEPT !.encoding = <<"base64">>, !.content = <<"!">>] }

FetchResps ==
  BadResps \cup LongResps \cup { OkJson(DocData(j)) : j \in FetchPayloads }

FetchIds ==
  { TagIssue \o <<":", "1">>, TagPr \o <<":", "2">>, TagCommit \o <<":", "a">>,
    TagCode \o <<":", "a">>, TagCommit, TagCode \o <<":", "a", ":", "b">>,
    <<"f", "o", "o", ":", "1">>, <<"I", "s", "s", "u", "e", ":", "1">>, <<>>,
    <<"a">> }

FetchArgs(id, b) == [NoArgs EXCEPT !.tool = "fetch", !.id = id, !.branch = b]

SearchArgs(q, b) == [NoArgs EXCEPT !.tool = "search", !.query = q, !.branch = b]

InitWith(v, e, rt) ==
  /\ version = v
  /\ env = e
  /\ OWNER = <<>>
  /\ REPO = <<>>
  /\ LIMIT = DefaultLimit
  /\ route = rt
  /\ index = [s \in Sessions |-> {}]
  /\ pos = [s \in Sessions |-> 0]
  /\ pc = [s \in Sessions |-> "idle"]
  /\ args = [s \in Sessions |-> NoArgs]
  /\ slots = [s \in Sessions |-> NoSlots]
  /\ reqs = [s \in Sessions |-> <<>>]
  /\ out = [s \in Sessions |-> NoOut]

(* ------------- handleFetch of one session (index.ts, part_000) -------- *)

InitFetch ==
  \E v \in {"H0", "H1", "H2"} : InitWith(v, Undef, [s \in Sessions |-> R1])

NextFetch ==
  \/ \E id \in FetchIds, b \in {Undef, <<"b">>} : Request("s1", FetchArgs(id, b))
  \/ FetchBegin("s1")
  \/ \E r \in FetchResps : FetchRespond("s1", r)

SpecFetch == InitFetch /\ [][NextFetch]_vars

(* ------ the same fetch without a branch (s1) and with one (s2) -------- *)

BranchFetchIds ==
  { TagIssue \o <<":", "1">>, TagCode \o <<":", "a">>, <<"f", "o", "o", ":", "1">> }

BranchFetchResps ==
  { OkJson(DocData(j)) : j \in FetchPayloads }
    \cup { CHOOSE r \in BadResps : r.code = "500" /\ r.json }

NextFetchTwo ==
  \/ \E id \in BranchFetchIds : Request("s1", FetchArgs(id, Undef))
  \/ \E id \in BranchFetchIds, b \in {<<"b">>, <<" ">>} : Request("s2", FetchArgs(id, b))
  \/ \E s \in Sessions : FetchBegin(s)
  \/ \E s \in Sessions, r \in BranchFetchResps : FetchRespond(s, r)

SpecFetchTwo == InitFetch /\ [][NextFetchTwo]_vars

(* ------- handleSearch of one session, default mode (branch unset) ----- *)

IssueItems ==
  { [number |-> <<"1">>, title |-> <<"t">>, html_url |-> <<"h", "1">>],
    [number |-> <<"2">>, title |-> Undef, html_url |-> <<"h", "2">>] }

CommitItems ==
  { [sha |-> <<"a">>, message |-> <<"m", "\n", "x">>, html_url |-> <<"h", "a">>],
    [sha |-> <<"b">>, message |-> Undef, html_url |-> Undef] }

CodeItems ==
  { [sha |-> <<"a">>, path |-> <<"p">>, html_url |-> <<"h", "p">>],
    [sha |-> <<"b">>, path |-> Undef, html_url |-> <<"h", "q">>] }

SearchResps(items, n) ==
  BadResps \cup { OkJson(ListData(l)) : l \in ListsOf(items, n) }
    \cup { OkJson(NoListData) }

InitSearch ==
  \E v \in {"H0", "H1"} : InitWith(v, Undef, [s \in Sessions |-> R1])

NextSearch ==
  \/ Request("s1", SearchArgs(<<"x">>, Undef))
  \/ SearchBegin("s1")
  \/ \E r \in SearchResps(IssueItems, MaxItems) : SearchRespond("s1", "ri", r)
  \/ \E r \in SearchResps(IssueItems, MaxItems) : SearchRespond("s1", "rp", r)
  \/ \E r \in SearchResps(CommitItems, MaxItems) : SearchRespond("s1", "rc", r)
  \/ \E r \in SearchResps(CodeItems, MaxItems) : SearchRespond("s1", "rcode", r)

SpecSearch == InitSearch /\ [][NextSearch]_vars

(* ------ default-mode searches over items lacking their key field ------ *)

\* an item with its key field and one without, per category
BareIssues ==
  { [number |-> <<"1">>, title |-> <<"t">>, html_url |-> <<"h", "1">>],
    [number |-> Undef, title |-> <<"t">>, html_url |-> <<"h", "2">>] }

BareCommits ==
  { [sha |-> <<"a">>, message |-> <<"m">>, html_url |-> <<"h", "a">>],
    [sha |-> Undef, message |-> <<"m">>, html_url |-> <<"h", "b">>] }

BareCodes ==
  { [sha |-> <<"a">>, path |-> <<"p">>, html_url |-> <<"h", "p">>],
    [sha |-> Undef, path |-> <<"q">>, html_url |-> <<"h", "q">>] }

OneItemResps(items) == { OkJson(ListData(<<it>>)) : it \in items }

NextMappers ==
  \/ Request("s1", SearchArgs(<<"x">>, Undef))
  \/ SearchBegin("s1")
  \/ \E r \in OneItemResps(BareIssues) : SearchRespond("s1", "ri", r)
  \/ \E r \in OneItemResps(BareIssues) : SearchRespond("s1", "rp", r)
  \/ \E r \in OneItemResps(BareCommits) : SearchRespond("s1", "rc", r)
  \/ \E r \in OneItemResps(BareCodes) : SearchRespond("s1", "rcode", r)

SpecMappers == InitSearch /\ [][NextMappers]_vars

(* ------ the same query in default mode (s1) and on a branch (s2) ------ *)

ModeIssueResps ==
  OneItemResps(IssueItems) \cup { OkJson(ListData(<<>>)), OkJson(NoListData) }

ModeCommitResps ==
  { OkJson(ListData(<< [sha |-> <<"a">>, message |-> <<"x">>, html_url |-> Undef] >>)) }

\* a branch head, and a tree entry (an item of the code search when it is
\* the answer of the default mode)
ModeCodeResps ==
  { OkJson(HeadData(<<"h">>)),
    OkJson(ListData(<< [type |-> "blob", path |-> <<"x">>, sha |-> <<"1">>,
                        html_url |-> Undef] >>)) }

NextModes ==
  \/ Request("s1", SearchArgs(<<"x">>, Undef))
  \/ Request("s2", SearchArgs(<<"x">>, <<"b">>))
  \/ \E s \in Sessions : SearchBegin(s)
  \/ \E s \in Sessions, r \in ModeIssueResps : SearchRespond(s, "ri", r)
  \/ \E s \in Sessions, r \in ModeIssueResps : SearchRespond(s, "rp", r)
  \/ \E s \in Sessions, r \in ModeCommitResps : SearchRespond(s, "rc", r)
  \/ \E s \in Sessions, r \in ModeCodeResps : SearchRespond(s, "rcode", r)

SpecModes == InitSearch /\ [][NextModes]_vars

(* ------------- handleSearch of one session with a branch -------------- *)

\* commits of the branch window (GitHub always gives a commit its sha)
CommitEntries ==
  { [sha |-> <<"a">>, message |-> <<"M", "\n", "x">>, html_url |-> Undef],
    [sha |-> <<"c">>, message |-> Undef, html_url |-> Undef] }

TreeEntries ==
  { [type |-> "blob", path |-> <<"a">>, sha |-> <<"1">>],
    [type |-> "blob", path |-> <<"B", "c">>, sha |-> <<"2">>],
    [type |-> "tree", path |-> <<"a">>, sha |-> <<"3">>] }

\* an empty query (part_000 accepts it), a blank one, a padded one
BranchQueries == { <<>>, <<" ">>, <<" ", "A">> }

FewResps == { OkJson(ListData(<<>>)), CHOOSE r \in BadResps : r.code = "500" /\ r.json }

CommitResps ==
  FewResps \cup { OkJson(ListData(l)) : l \in ListsOf(CommitEntries, MaxItems) }
    \cup { OkJson(NoListData) }

\* the answers to the branch head request and to the tree request
CodeResps ==
  FewResps \cup { OkJson(HeadData(<<"h">>)), OkJson(NoListData) }
    \cup { OkJson(ListData(l)) : l \in ListsOf(TreeEntries, MaxItems) }

InitBranch ==
  \E v \in {"H0", "H1"}, e \in {Undef, <<"1">>} :
    InitWith(v, e, [s \in Sessions |-> R1])

NextBranch ==
  \/ \E q \in BranchQueries : Request("s1", SearchArgs(q, <<"b">>))
  \/ SearchBegin("s1")
  \/ \E r \in FewResps : SearchRespond("s1", "ri", r)
  \/ \E r \in FewResps : SearchRespond("s1", "rp", r)
  \/ \E r \in CommitResps : SearchRespond("s1", "rc", r)
  \/ \E r \in CodeResps : SearchRespond("s1", "rcode", r)

SpecBranch == InitBranch /\ [][NextBranch]_vars

(* ------ explicit-branch searches: the head and tree requests ---------- *)

\* the answers to the branch head request and to the tree request, with a
\* second head hash
HeadResps == CodeResps \cup { OkJson(HeadData(<<"g">>)) }

NextTree ==
  \/ \E q \in {<<>>, <<"a">>} : Request("s1", SearchArgs(q, <<"b">>))
  \/ SearchBegin("s1")
  \/ \E r \in FewResps : SearchRespond("s1", "ri", r)
  \/ \E r \in FewResps : SearchRespond("s1", "rp", r)
  \/ \E r \in FewResps : SearchRespond("s1", "rc", r)
  \/ \E r \in HeadResps : SearchRespond("s1", "rcode", r)

SpecTree == InitBranch /\ [][NextTree]_vars

(* ------ explicit-branch searches: the commit scan with a query -------- *)

\* queries met by a later line of a message, by a first line, by a hash
CommitQueries == { <<"x">>, <<"m">>, <<"A">> }

NextCommits ==
  \/ \E q \in CommitQueries : Request("s1", SearchArgs(q, <<"b">>))
  \/ SearchBegin("s1")
  \/ SearchRespond("s1", "ri", OkJson(ListData(<<>>)))
  \/ SearchRespond("s1", "rp", OkJson(ListData(<<>>)))
  \/ \E r \in CommitResps : SearchRespond("s1", "rc", r)
  \/ \E r \in FewResps : SearchRespond("s1", "rcode", r)

SpecCommits == InitBranch /\ [][NextCommits]_vars

(* ------ searches and fetches whose upstream calls all get answered ---- *)

\* a commit window and a tree of two entries that both match the query "a"
LiveCommits ==
  << [sha |-> <<"a">>, message |-> <<"a">>, html_url |-> Undef],
     [sha |-> <<"c">>, message |-> <<"a", "\n", "x">>, html_url |-> Undef] >>

LiveTree ==
  << [type |-> "blob", path |-> <<"a">>, sha |-> <<"1">>, html_url |-> Undef],
     [type |-> "blob", path |-> <<"B", "a">>, sha |-> <<"2">>, html_url |-> Undef] >>

LiveResps(k) ==
  FewResps \cup
    (CASE k = "rc" -> { OkJson(ListData(LiveCommits)), OkJson(NoListData) }
       [] k = "rcode" -> { OkJson(HeadData(<<"h">>)), OkJson(ListData(LiveTree)) }
       [] OTHER -> {})

SearchAnswered(s, k) == \E r \in LiveResps(k) : SearchRespond(s, k, r)

FetchAnswered(s) == \E r \in FetchResps : FetchRespond(s, r)

NextLive ==
  \/ \E b \in {Undef, <<"b">>} : Request("s1", SearchArgs(<<"a">>, b))
  \/ \E id \in FetchIds : Request("s1", FetchArgs(id, Undef))
  \/ SearchBegin("s1")
  \/ \E k \in SlotNames : SearchAnswered("s1", k)
  \/ FetchBegin("s1")
  \/ FetchAnswered("s1")

\* the handlers run on, and every upstream call that is awaited gets its
\* answer, good or bad
SpecLive ==
  /\ InitBranch /\ [][NextLive]_vars
  /\ WF_vars(SearchBegin("s1")) /\ WF_vars(FetchBegin("s1"))
  /\ WF_vars(SearchAnswered("s1", "ri")) /\ WF_vars(SearchAnswered("s1", "rp"))
  /\ WF_vars(SearchAnswered("s1", "rc")) /\ WF_vars(SearchAnswered("s1", "rcode"))
  /\ WF_vars(FetchAnswered("s1"))

(* ------ requests routed under the values of RESULTS_PER_CATEGORY ------ *)

\* unset, numbers, zero, a negative number, text, the empty string, a
\* padded number, a number followed by text
LimitEnvs ==
  { Undef, <<"3">>, <<"1", "2">>, <<"0">>, <<"-", "2">>, <<"a">>, <<>>,
    <<" ", "7">>, <<"3", "x">> }

InitLimit ==
  \E v \in {"H0", "H1"}, e \in LimitEnvs : InitWith(v, e, [s \in Sessions |-> R1])

NextLimit ==
  \/ Request("s1", SearchArgs(<<"x">>, Undef))
  \/ SearchBegin("s1")
  \/ \E k \in SlotNames, r \in FewResps : SearchRespond("s1", k, r)

SpecLimit == InitLimit /\ [][NextLimit]_vars

(* ---------- two sessions routed to two repositories, interleaved ------ *)

ScopeResps ==
  { OkJson(HeadData(<<"h">>)),
    OkJson(ListData(<< [type |-> "blob", path |-> <<"a">>, sha |-> <<"1">>,
                        message |-> Undef, html_url |-> Undef,
                        number |-> <<"1">>, title |-> Undef] >>)) }

InitScope ==
  \E v \in {"H0", "H1"} : InitWith(v, Undef, [s \in Sessions |-> IF s = "s1" THEN R1 ELSE R2])

\* session s1 searches a branch of its repository while s2 fetches a blob of its own
NextScope ==
  \/ Request("s1", SearchArgs(<<"a">>, <<"b">>))
  \/ Request("s2", FetchArgs(TagCode \o <<":", "1">>, Undef))
  \/ SearchBegin("s1")
  \/ \E k \in SlotNames, r \in ScopeResps : SearchRespond("s1", k, r)
  \/ FetchBegin("s2")
  \/ FetchRespond("s2", OkJson(DocData([NoFields EXCEPT !.content = <<"Q", "Q", "=", "=">>,
                                                        !.encoding = <<"base64">>])))

SpecScope == InitScope /\ [][NextScope]_vars

(* ------------- the Index tools of one session (1.0.0, 1.2.0) ---------- *)

IndexItems ==
  { [sha |-> <<"a">>, path |-> <<"p">>, html_url |-> <<"h", "p">>, full_name |-> <<"n">>],
    [sha |-> <<"b">>, path |-> <<"q">>, html_url |-> <<"h", "q">>, full_name |-> Undef] }

IndexSearchResps ==
  { OkJson(ListData(l)) : l \in ListsOf(IndexItems, MaxItems) }
    \cup { OkJson(NoListData), CHOOSE r \in BadResps : r.code = "500" /\ r.json }

\* blob hashes a search may have returned, and a path it never returns
Tokens == { <<"a">>, <<"b">>, <<"R">> }

TextResps == { [code |-> "200", text |-> <<"T">>], [code |-> "500", text |-> <<>>] }

IdsArgs(ids, path) == [NoArgs EXCEPT !.tool = "fetch", !.ids = ids, !.path = path]

InitIndex ==
  \E v \in {"A10", "M12"} : InitWith(v, Undef, [s \in Sessions |-> R1])

NextIndex ==
  \/ IndexRequest("s1", SearchArgs(<<"x">>, Undef))
  \/ \E ids \in ListsOf(Tokens, MaxIds), path \in {Undef, <<"R">>} :
       /\ version = "M12" => path = Undef
       /\ IndexRequest("s1", IdsArgs(ids, path))
  \/ IndexSearchBegin("s1")
  \/ \E r \in IndexSearchResps : IndexSearchRespond("s1", r)
  \/ IndexFetchBegin("s1")
  \/ \E r \in TextResps : IndexFetchRespond("s1", r)

SpecIndex == InitIndex /\ [][NextIndex]_vars

(* ------ searches whose items repeat a content hash -------------------- *)

\* the same blob at two paths, and another blob
SameHashItems ==
  { [sha |-> <<"a">>, path |-> <<"p">>, html_url |-> <<"h", "p">>, full_name |-> <<"n">>],
    [sha |-> <<"a">>, path |-> <<"q">>, html_url |-> <<"h", "q">>, full_name |-> <<"n">>],
    [sha |-> <<"b">>, path |-> <<"r">>, html_url |-> <<"h", "r">>, full_name |-> <<"n">>] }

NextCollide ==
  \/ IndexRequest("s1", SearchArgs(<<"x">>, Undef))
  \/ IndexSearchBegin("s1")
  \/ \E l \in ListsOf(SameHashItems, MaxItems) :
       IndexSearchRespond("s1", OkJson(ListData(l)))

SpecCollide == InitIndex /\ [][NextCollide]_vars

(* ------------- the Index tools of two sessions, interleaved ----------- *)

InitIndexTwo ==
  \E v \in {"A10", "M12"} : InitWith(v, Undef, [s \in Sessions |-> R1])

\* both sessions are bound to the same repository; each searches and fetches
NextIndexTwo ==
  \/ \E s \in Sessions : IndexRequest(s, SearchArgs(<<"x">>, Undef))
  \/ \E s \in Sessions, t \in {<<"a">>, <<"R">>} : IndexRequest(s, IdsArgs(<<t>>, Undef))
  \/ \E s \in Sessions : IndexSearchBegin(s)
  \/ \E s \in Sessions, l \in ListsOf(IndexItems, MaxItems) :
       IndexSearchRespond(s, OkJson(ListData(l)))
  \/ \E s \in Sessions : IndexFetchBegin(s)
  \/ \E s \in Sessions, r \in TextResps : IndexFetchRespond(s, r)

SpecIndexTwo == InitIndexTwo /\ [][NextIndexTwo]_vars

(* ------- a default-mode search, then a fetch of one of its results ----- *)

\* the caller passes the id of a code record of the search that has just
\* returned to the fetch tool of the same session
Redeem(s) ==
  /\ args[s].tool = "search" /\ ~Truthy(args[s].branch)
  /\ out[s].kind = "results"
  /\ \E i \in 1..Len(out[s].results) :
       LET rec == out[s].results[i]
       IN /\ FetchKind(rec.id) = TagCode
          /\ Request(s, [FetchArgs(rec.id, Undef) EXCEPT !.from = rec])

\* the same with the tools of 1.2.0, whose ids are the bare blob hashes
IndexRedeem(s) ==
  /\ args[s].tool = "search"
  /\ out[s].kind = "results"
  /\ \E i \in 1..Len(out[s].results) :
       LET rec == out[s].results[i]
       IN IndexRequest(s, [IdsArgs(<<rec.id>>, Undef) EXCEPT
                             !.from = [id |-> rec.id, title |-> rec.title, url |-> rec.url]])

InitRound ==
  \E v \in {"H0", "H1", "M12"} : InitWith(v, Undef, [s \in Sessions |-> R1])

NextRound ==
  \/ Request("s1", SearchArgs(<<"x">>, Undef))
  \/ SearchBegin("s1")
  \/ \E k \in {"ri", "rp", "rc"}, r \in FewResps : SearchRespond("s1", k, r)
  \/ \E r \in SearchResps(CodeItems, MaxItems) : SearchRespond("s1", "rcode", r)
  \/ Redeem("s1")
  \/ FetchBegin("s1")
  \/ \E r \in FetchResps : FetchRespond("s1", r)
  \/ IndexRequest("s1", SearchArgs(<<"x">>, Undef))
  \/ IndexSearchBegin("s1")
  \/ \E r \in IndexSearchResps : IndexSearchRespond("s1", r)
  \/ IndexRedeem("s1")
  \/ IndexFetchBegin("s1")
  \/ \E r \in TextResps : IndexFetchRespond("s1", r)

SpecRound == InitRound /\ [][NextRound]_vars

(* ============================== claims ================================ *)

\* the text of an identifier before its first ':'
TagOf(id) ==
  LET n == CHOOSE i \in 1..(Len(id) + 1) :
             (i = Len(id) + 1 \/ id[i] = ":") /\ \A j \in 1..(i - 1) : id[j] # ":"
  IN SubSeq(id, 1, n - 1)

FourTags == {TagIssue, TagPr, TagCommit, TagCode}

\* C3: every search or fetch invocation in which an upstream call fails
\* returns an {error} value; no invocation ends by throwing past the handler.
C3_NeverThrowsPastBoundary ==
  \A s \in Sessions : out[s].kind # "thrown"

CategoryRank(tag) ==
  CASE tag = TagIssue -> 1 [] tag = TagPr -> 2 [] tag = TagCommit -> 3 [] OTHER -> 4

IdsOfCategory(results, tag) ==
  LET sel == SelectSeq(results, LAMBDA r : TagOf(r.id) = tag)
  IN [i \in 1..Len(sel) |-> sel[i].id]

\* the ids, in upstream order, of the items that carry their key
UpstreamIds(raw, tag, Key(_)) ==
  LET sel == SelectSeq(raw, LAMBDA it : Truthy(Key(it)))
  IN [i \in 1..Len(sel) |-> tag \o <<":">> \o Key(sel[i])]

NumberOf(it) == it.number

ShaOf(it) == it.sha

\* C4: in default-branch mode, whatever the order in which the four upstream
\* queries completed, the returned list is all issue records, then all pr
\* records, then all commit records, then all code records, each group in the
\* order its upstream endpoint returned the items.
C4_DefaultOrderFixed ==
  \A s \in Sessions :
    (pc[s] = "idle" /\ args[s].tool = "search" /\ ~Truthy(args[s].branch)
       /\ out[s].kind = "results")
    => LET res == out[s].results
       IN /\ \A i, j \in 1..Len(res) :
               i < j => CategoryRank(TagOf(res[i].id)) <= CategoryRank(TagOf(res[j].id))
          /\ IdsOfCategory(res, TagIssue) = UpstreamIds(slots[s].ri.raw, TagIssue, NumberOf)
          /\ IdsOfCategory(res, TagPr) = UpstreamIds(slots[s].rp.raw, TagPr, NumberOf)
          /\ IdsOfCategory(res, TagCommit) = UpstreamIds(slots[s].rc.raw, TagCommit, ShaOf)
          /\ IdsOfCategory(res, TagCode) = UpstreamIds(slots[s].rcode.raw, TagCode, ShaOf)
          /\ \A i \in 1..Len(res) : TagOf(res[i].id) \in FourTags

\* a default-mode search returned records of the four categories, the issues
\* in the upstream order 2, 1
C4_Witness ==
  \E s \in Sessions :
    /\ pc[s] = "idle" /\ out[s].kind = "results" /\ ~Truthy(args[s].branch)
    /\ Len(out[s].results) >= 5
    /\ out[s].results[1].id = TagIssue \o <<":", "2">>
    /\ out[s].results[2].id = TagIssue \o <<":", "1">>
    /\ TagOf(out[s].results[Len(out[s].results)].id) = TagCode
    /\ \E i \in 1..Len(out[s].results) : TagOf(out[s].results[i].id) = TagCommit
    /\ \E i \in 1..Len(out[s].results) : TagOf(out[s].results[i].id) = TagPr

\* C5: for an identifier whose tag is none of issue, pr, commit, code, fetch
\* returns the placeholder Doc titled "Unknown ID" for that identifier, issues
\* no upstream call, and neither throws nor returns an error.
C5_UnknownTagPlaceholder ==
  \A s \in Sessions :
    (args[s].tool = "fetch" /\ pc[s] # "routed" /\ TagOf(args[s].id) \notin FourTags)
    => /\ pc[s] = "idle"
       /\ reqs[s] = <<>>
       /\ out[s].kind = "doc"
       /\ out[s].doc.title = <<"Unknown ID">>
       /\ out[s].doc.id = args[s].id

\* fetch of "Issue:1" (a tag that differs from issue by case) has returned
C5_Witness ==
  \E s \in Sessions :
    /\ pc[s] = "idle" /\ args[s].tool = "fetch"
    /\ args[s].id = <<"I", "s", "s", "u", "e", ":", "1">>
    /\ out[s].kind = "doc"
    /\ out[s].doc.title = <<"Unknown ID">>
    /\ reqs[s] = <<>>

ResolverOf(tag) ==
  CASE tag = TagIssue -> "issues"
    [] tag = TagPr -> "pulls"
    [] tag = TagCommit -> "commits"
    [] tag = TagCode -> "git/blobs"

\* C6: for an identifier tagged issue, pr, commit or code, handleFetch invokes
\* exactly one resolver, the one of that tag (one upstream request, to that
\* category's endpoint), and the Doc it returns is of that category.
C6_DispatchByTag ==
  \A s \in Sessions :
    (args[s].tool = "fetch" /\ pc[s] \in {"fetchWait", "idle"}
       /\ TagOf(args[s].id) \in FourTags)
    => /\ Len(reqs[s]) = 1
       /\ reqs[s][1].ep = ResolverOf(TagOf(args[s].id))
       /\ out[s].kind = "doc" => TagOf(out[s].doc.id) = TagOf(args[s].id)

\* fetch of "pr:2" has returned the Doc of its one request to the pulls endpoint
C6_Witness ==
  \E s \in Sessions :
    /\ pc[s] = "idle" /\ args[s].tool = "fetch"
    /\ args[s].id = TagPr \o <<":", "2">>
    /\ out[s].kind = "doc"
    /\ Len(reqs[s]) = 1 /\ reqs[s][1].ep = "pulls"

\* str has sub as a substring, letter case disregarded
ContainsNoCase(str, sub) ==
  LET Low(x) == [i \in 1..Len(x) |-> LowerChar(x[i])]
  IN \E i \in 0..(Len(str) - Len(sub)) :
       SubSeq(Low(str), i + 1, i + Len(sub)) = Low(sub)

\* the query without its leading and trailing white space
Stripped(q) ==
  LET ns == { i \in 1..Len(q) : q[i] # " " }
  IN IF ns = {} THEN <<>>
     ELSE SubSeq(q, CHOOSE i \in ns : \A j \in ns : i <= j,
                    CHOOSE i \in ns : \A j \in ns : i >= j)

CodeRecords(s) == SelectSeq(out[s].results, LAMBDA r : TagOf(r.id) = TagCode)

BranchSearchDone(s) ==
  /\ pc[s] = "idle" /\ args[s].tool = "search" /\ Truthy(args[s].branch)
  /\ out[s].kind = "results"

\* C9 as stated: a branch code search with a non-empty query returns at most
\* LIMIT records, each path containing the query itself, case disregarded.
C9_PathContainsQuery ==
  \A s \in Sessions :
    (BranchSearchDone(s) /\ args[s].query # <<>>)
    => /\ Len(CodeRecords(s)) <= LIMIT
       /\ \A i \in 1..Len(CodeRecords(s)) :
            ContainsNoCase(CodeRecords(s)[i].title, args[s].query)

\* C9 (amended): a branch code search returns at most LIMIT records, and when
\* the query is non-empty once its surrounding white space is removed, every
\* returned path contains that trimmed query, case disregarded.
C9_PathContainsTrimmedQuery ==
  \A s \in Sessions :
    BranchSearchDone(s)
    => /\ Len(CodeRecords(s)) <= LIMIT
       /\ Stripped(args[s].query) # <<>> =>
            \A i \in 1..Len(CodeRecords(s)) :
              ContainsNoCase(CodeRecords(s)[i].title, Stripped(args[s].query))

\* the padded query " A" met a tree with two matching paths and a LIMIT of 1
C9_Witness ==
  \E s \in Sessions :
    /\ BranchSearchDone(s) /\ args[s].query = <<" ", "A">>
    /\ LIMIT = 1
    /\ Len(slots[s].rcode.raw) = 2
    /\ \A i \in 1..2 : slots[s].rcode.raw[i].path = <<"a">>
    /\ Len(CodeRecords(s)) = 1

\* C10: a branch commit search with an empty query returns the first LIMIT
\* commits of the list the upstream returned for the branch (all of them when
\* the list is shorter), in the order of that list, none filtered out.
C10_EmptyQueryFirstN ==
  \A s \in Sessions :
    (BranchSearchDone(s) /\ Stripped(args[s].query) = <<>>)
    => LET lst == slots[s].rc.raw
           n == IF Len(lst) < LIMIT THEN Len(lst) ELSE LIMIT
       IN IdsOfCategory(out[s].results, TagCommit)
            = [i \in 1..n |-> TagCommit \o <<":">> \o lst[i].sha]

\* an empty query met a window of two commits and a LIMIT of 1
C10_Witness ==
  \E s \in Sessions :
    /\ BranchSearchDone(s) /\ args[s].query = <<>>
    /\ LIMIT = 1
    /\ Len(slots[s].rc.raw) = 2
    /\ IdsOfCategory(out[s].results, TagCommit) = << TagCommit \o <<":", "c">> >>

\* C2: when requests of two sessions routed to different repositories
\* interleave, every upstream request a session's search or fetch issues
\* targets the owner and repo of that session's own route.
C2_ScopeIsolation ==
  \A s \in Sessions : \A i \in 1..Len(reqs[s]) :
    /\ reqs[s][i].owner = route[s].owner
    /\ reqs[s][i].repo = route[s].repo

IndexFetchDone(s) ==
  /\ pc[s] = "idle" /\ args[s].tool = "fetch" /\ out[s].kind = "files"

\* C7: for every token passed to fetch that is not a key of the session
\* Index, fetch retrieves that token by path at the head ref and returns an
\* entry whose path is the token.
C7_UnknownTokenFallsBackToPath ==
  \A s \in Sessions :
    IndexFetchDone(s)
    => \A j \in 1..Len(args[s].ids) :
         LET token == args[s].ids[j]
         IN (\A e \in index[s] : e.id # token)
            => /\ \E i \in 1..Len(out[s].files) : out[s].files[i].path = token
               /\ \E i \in 1..Len(reqs[s]) :
                    reqs[s][i].ep = "contents@HEAD" /\ reqs[s][i].arg = token

\* C8: a fetch whose retrievals all succeed returns exactly one entry per
\* input identifier, in input order (the entry of an identifier in the Index
\* carries the path the Index holds, the entry of any other its own text),
\* whether or not each identifier is a key of the Index.
C8_OneEntryPerIdInOrder ==
  \A s \in Sessions :
    (IndexFetchDone(s) /\ args[s].path = Undef)
    => /\ Len(out[s].files) = Len(args[s].ids)
       /\ \A j \in 1..Len(args[s].ids) :
            LET token == args[s].ids[j]
                known == { e \in index[s] : e.id = token }
            IN out[s].files[j].path
                 = IF known = {} THEN token ELSE (CHOOSE e \in known : TRUE).path

\* C1: in one session, a fetch of the id of a code record that the
\* default-mode search just before it returned gives an entry whose URL is
\* the canonical URL (html_url) recorded for that id at search time.
C1_RoundTrip ==
  \A s \in Sessions :
    (pc[s] = "idle" /\ args[s].tool = "fetch" /\ args[s].from.id # <<>>)
    => /\ out[s].kind = "doc" => out[s].doc.url = args[s].from.url
       /\ out[s].kind = "files" =>
            /\ Len(out[s].files) = 1
            /\ out[s].files[1].source_url = args[s].from.url
            /\ \E e \in index[s] :
                 e.id = args[s].from.id /\ e.html_url = args[s].from.url

\* an upstream answer that succeeded (status 200, a JSON body) and carries
\* zero items: an empty item list, or no item list at all
ZeroItems(r) ==
  /\ r.code = "200" /\ r.json /\ r.parses
  /\ r.data.shape = "nolist" \/ (r.data.shape = "list" /\ r.data.list = <<>>)

DefaultSearchOver(s) ==
  /\ pc[s] = "idle" /\ args[s].tool = "search" /\ ~Truthy(args[s].branch)
  /\ out[s].kind # "none"

\* C11: when each of the four category queries of a default-mode search was
\* answered successfully with zero items (or with no item list at all), the
\* search returns {results: []} and not an error.
C11_AllEmptyGivesEmptyResults ==
  \A s \in Sessions :
    (DefaultSearchOver(s) /\ \A k \in SlotNames : ZeroItems(slots[s][k].resp))
    => /\ out[s].kind = "results"
       /\ out[s].results = <<>>

\* the four queries were answered, two with an empty list and two with no list
C11_Witness ==
  \E s \in Sessions :
    /\ DefaultSearchOver(s) /\ out[s].kind = "results" /\ out[s].results = <<>>
    /\ slots[s].ri.resp = OkJson(ListData(<<>>))
    /\ slots[s].rp.resp = OkJson(NoListData)
    /\ slots[s].rc.resp = OkJson(NoListData)
    /\ slots[s].rcode.resp = OkJson(ListData(<<>>))

\* an upstream answer that failed: a non-success status, or a body that is
\* not well-formed JSON
UpstreamFailed(r) ==
  /\ r.code # "none"
  /\ r.code # "200" \/ ~r.parses

\* C12: if any upstream call of a handleSearch invocation of src/src/index.ts
\* failed, in either mode, the invocation returns a single {error: message}
\* and no results list, whatever the other calls returned.
C12_AnyFailureGivesSingleError ==
  \A s \in Sessions :
    (version = "H1" /\ pc[s] = "idle" /\ args[s].tool = "search"
       /\ \E k \in SlotNames : UpstreamFailed(slots[s][k].resp))
    => /\ out[s].kind = "error"
       /\ out[s].results = <<>>

KeysOf(idx) == { e.id : e \in idx }

\* C13: the Index of a session is empty at session start, and no step of any
\* search or fetch invocation removes a key from it.
C13_IndexStartsEmptyNeverShrinks ==
  /\ \A s \in Sessions : index[s] = {}
  /\ [][\A s \in Sessions : KeysOf(index[s]) \subseteq KeysOf(index'[s])]_vars

\* a fetch has returned in a session whose searches left two keys in the Index
C13_Witness ==
  \E s \in Sessions :
    /\ Cardinality(KeysOf(index[s])) = 2
    /\ pc[s] = "idle" /\ args[s].tool = "fetch" /\ out[s].kind = "files"
    /\ Len(out[s].files) >= 1

\* C14: two sessions keep independent indices: a step changes the Index of a
\* session only when it is the answer to that session's own search, and a
\* fetch resolves a token by blob hash only through an entry of its own
\* session's Index, so an id that only the other session's search returned is
\* not resolved through an Index entry.
C14_IndicesIndependent ==
  /\ [](\A s \in Sessions :
          \A i \in 1..Len(reqs[s]) :
            reqs[s][i].ep = "git/blobs"
              => \E e \in index[s] : Str(e.sha) = reqs[s][i].arg)
  /\ [][\A s \in Sessions :
          index'[s] # index[s]
            => pc[s] = "indexSearchWait" /\ pc'[s] = "idle"]_vars

\* session s1 holds the key "a" from its search, s2 holds no key and its
\* fetch of "a" has returned the file found by path
C14_Witness ==
  /\ KeysOf(index["s1"]) = {<<"a">>}
  /\ index["s2"] = {}
  /\ pc["s2"] = "idle" /\ args["s2"].ids = << <<"a">> >>
  /\ out["s2"].kind = "files" /\ Len(out["s2"].files) = 1
  /\ reqs["s2"][1].ep = "contents@HEAD"

\* C15: in the Index tools of 1.2.0 / 1.3.0, every step that puts a key into
\* a session's Index (or changes its entry) is the return of a search of that
\* same session whose results carry that key as an id; no other step inserts.
C15_KeysComeFromOwnSearch ==
  [][\A s \in Sessions :
       version = "M12" =>
         \A e \in index'[s] \ index[s] :
           /\ pc[s] = "indexSearchWait"
           /\ out'[s].kind = "results"
           /\ \E i \in 1..Len(out'[s].results) : out'[s].results[i].id = e.id]_vars

\* a search of 1.2.0 has returned two records and left their two keys
C15_Witness ==
  \E s \in Sessions :
    /\ version = "M12"
    /\ pc[s] = "idle" /\ args[s].tool = "search" /\ out[s].kind = "results"
    /\ Len(out[s].results) = 2
    /\ KeysOf(index[s]) = { out[s].results[1].id, out[s].results[2].id }
    /\ Cardinality(KeysOf(index[s])) = 2

\* a blob answer whose base64 content does not decode
UndecodableBlob(r) ==
  /\ r.code = "200" /\ r.json /\ r.parses
  /\ r.data.doc.encoding = <<"base64">>
  /\ \E i \in 1..Len(r.data.doc.content) : r.data.doc.content[i] = "!"

\* C16: when the blob fetched for a code identifier carries base64 content
\* that fails to decode, the fetch returns a Doc with empty text; it neither
\* throws nor returns an error.
C16_DecodeFailureGivesEmptyText ==
  \A s \in Sessions :
    (pc[s] = "idle" /\ args[s].tool = "fetch" /\ TagOf(args[s].id) = TagCode
       /\ UndecodableBlob(slots[s].rdoc.resp))
    => /\ out[s].kind = "doc"
       /\ out[s].doc.text = <<>>

\* C17: for every failed upstream response, the error string carries the
\* status code and, of the body, an excerpt of at most 300 characters, never
\* the full body, whatever the body's length and content type.
C17_ErrorExcerptBounded ==
  \A s \in Sessions :
    (pc[s] = "idle" /\ args[s].tool = "fetch" /\ slots[s].rdoc.st = "failed")
    => LET r == slots[s].rdoc.resp
           e == out[s].error
           p == <<"GitHub ", r.code, ": ">>
       IN /\ Len(e) >= Len(p)
          /\ SubSeq(e, 1, Len(p)) = p
          /\ Len(e) - Len(p) <= ExcerptMax

\* the positions of the tree requests and of the branch head requests of s
TreeReqs(s) == { i \in 1..Len(reqs[s]) : reqs[s][i].ep = "git/trees" }

HeadReqs(s) == { i \in 1..Len(reqs[s]) : reqs[s][i].ep = "branches" }

\* C18: in an explicit-branch search the tree request is issued only after
\* the branch head request completed and asks for the hash that request
\* returned; when the head resolves to absent no tree request is issued and
\* the code category of the result is empty.
C18_HeadBeforeTree ==
  /\ [](\A s \in Sessions :
          /\ \A i \in TreeReqs(s) :
               /\ \E j \in HeadReqs(s) : j < i
               /\ slots[s].rcode.st \in {"wait2", "done", "failed"}
               /\ reqs[s][i].arg = slots[s].rcode.sha
          /\ (BranchSearchDone(s) /\ TreeReqs(s) = {}) => CodeRecords(s) = <<>>)
  /\ [][\A s \in Sessions :
          /\ ~(TreeReqs(s)' \subseteq TreeReqs(s))
               => slots[s].rcode.st = "wait" /\ slots'[s].rcode.st = "wait2"
          /\ (HeadReqs(s) # {} /\ slots[s].rcode.st = "wait"
                /\ slots'[s].rcode.st \in {"wait2", "done"})
             => LET sha == slots'[s].rcode.resp.data.sha
                IN IF Truthy(sha)
                   THEN /\ Len(reqs'[s]) = Len(reqs[s]) + 1
                        /\ reqs'[s][Len(reqs'[s])].ep = "git/trees"
                        /\ reqs'[s][Len(reqs'[s])].arg = sha
                   ELSE /\ reqs'[s] = reqs[s]
                        /\ slots'[s].rcode.st = "done"
                        /\ slots'[s].rcode.items = <<>>]_vars

\* a branch search whose head request returned "g" asked for the tree of "g"
\* and returned a code record from it
C18_Witness ==
  \E s \in Sessions :
    /\ BranchSearchDone(s)
    /\ TreeReqs(s) # {}
    /\ \A i \in TreeReqs(s) : reqs[s][i].arg = <<"g">>
    /\ CodeRecords(s) # <<>>

\* the commits of a list whose first message line or hash contains q
MatchingCommits(lst, q) ==
  SelectSeq(lst, LAMBDA c :
    \/ ContainsNoCase(FirstLine(Coalesce(c.message, <<>>)), q)
    \/ ContainsNoCase(c.sha, q))

\* C19: for a non-empty query the branch commit scan returns exactly the
\* first LIMIT commits, in upstream order, whose first message line or full
\* hash contains the query, case disregarded; a commit matching only in a
\* later line of its message is not returned.
C19_FirstLineOrHashMatch ==
  \A s \in Sessions :
    (BranchSearchDone(s) /\ args[s].query # <<>>)
    => LET sel == MatchingCommits(slots[s].rc.raw, args[s].query)
           n == IF Len(sel) < LIMIT THEN Len(sel) ELSE LIMIT
       IN IdsOfCategory(out[s].results, TagCommit)
            = [i \in 1..n |-> TagCommit \o <<":">> \o sel[i].sha]

\* what follows the first ":" of an identifier that has one
RestOf(id) == SubSeq(id, Len(TagOf(id)) + 2, Len(id))

\* C20: handleFetch splits an identifier at its first ":" only: for an
\* identifier with a recognized tag the value handed to the resolver is the
\* whole remainder after that ":", also when the remainder contains ":", so
\* the request asks for that remainder and the returned Doc's id is the
\* input identifier.
C20_SplitAtFirstColonOnly ==
  \A s \in Sessions :
    (args[s].tool = "fetch" /\ pc[s] \in {"fetchWait", "idle"}
       /\ TagOf(args[s].id) \in FourTags /\ Len(TagOf(args[s].id)) < Len(args[s].id))
    => /\ \A i \in 1..Len(reqs[s]) : reqs[s][i].arg = RestOf(args[s].id)
       /\ out[s].kind = "doc" => out[s].doc.id = args[s].id

\* C21: after a default-mode search returns, the session Index holds, for
\* every code result of the list, an entry under that result's id whose
\* content hash is the blob hash of the item; no code result is returned
\* without its Index entry.
C21_CodeResultsAreIndexed ==
  \A s \in Sessions :
    (pc[s] = "idle" /\ args[s].tool = "search" /\ ~Truthy(args[s].branch)
       /\ out[s].kind = "results")
    => \A i \in 1..Len(out[s].results) :
         TagOf(out[s].results[i].id) = TagCode
         => \E e \in index[s] :
              /\ e.id = out[s].results[i].id
              /\ TagCode \o <<":">> \o Str(e.sha) = out[s].results[i].id

\* C22: a category mapper returns absent for an item lacking its minimum
\* field (an issue or pr item with no number, a commit or code item with no
\* hash): a search returns one record per item that has the field, and no
\* record carries an id built from a missing value, such as "issue:undefined".
C22_NoRecordFromMissingField ==
  \A s \in Sessions :
    (pc[s] = "idle" /\ args[s].tool = "search" /\ ~Truthy(args[s].branch)
       /\ out[s].kind = "results")
    => LET res == out[s].results
       IN /\ \A i \in 1..Len(res) : RestOf(res[i].id) # StrUndefined
          /\ IdsOfCategory(res, TagIssue) = UpstreamIds(slots[s].ri.raw, TagIssue, NumberOf)
          /\ IdsOfCategory(res, TagPr) = UpstreamIds(slots[s].rp.raw, TagPr, NumberOf)
          /\ IdsOfCategory(res, TagCommit) = UpstreamIds(slots[s].rc.raw, TagCommit, ShaOf)
          /\ IdsOfCategory(res, TagCode) = UpstreamIds(slots[s].rcode.raw, TagCode, ShaOf)

\* the issue and pr records of a result list, in its order
IssuePrRecords(res) ==
  SelectSeq(res, LAMBDA r : TagOf(r.id) \in {TagIssue, TagPr})

SearchReturned(s) ==
  pc[s] = "idle" /\ args[s].tool = "search" /\ out[s].kind = "results"

\* C23: for the same query and the same answers of the issue and pr
\* searches, a branch search returns the same issue and pr records, in the
\* same order and ahead of its commit and code records, as a default search.
C23_IssuesPrsSameInBothModes ==
  \A s, t \in Sessions :
    (/\ SearchReturned(s) /\ ~Truthy(args[s].branch)
     /\ SearchReturned(t) /\ Truthy(args[t].branch)
     /\ args[s].query = args[t].query
     /\ slots[s].ri.resp = slots[t].ri.resp
     /\ slots[s].rp.resp = slots[t].rp.resp)
    => LET a == out[s].results
           b == out[t].results
           n == Len(IssuePrRecords(b))
       IN /\ IssuePrRecords(b) = IssuePrRecords(a)
          /\ SubSeq(b, 1, n) = IssuePrRecords(b)

\* both modes returned, for the same answers, an issue and a pr record ahead
\* of a commit and a code record
C23_Witness ==
  /\ SearchReturned("s1") /\ ~Truthy(args["s1"].branch)
  /\ SearchReturned("s2") /\ Truthy(args["s2"].branch)
  /\ slots["s1"].ri.resp = slots["s2"].ri.resp
  /\ slots["s1"].rp.resp = slots["s2"].rp.resp
  /\ Len(out["s2"].results) = 4
  /\ Len(IssuePrRecords(out["s2"].results)) = 2
  /\ TagOf(out["s2"].results[2].id) = TagPr
  /\ TagOf(out["s2"].results[4].id) = TagCode

\* C24: when the retrieval of one identifier of a batch fetch fails, the
\* whole call fails: the caller gets no files list, not even the entries of
\* the identifiers resolved before the failing one.
C24_OneFailureFailsTheBatch ==
  \A s \in Sessions :
    (~IsHandle /\ pc[s] = "idle" /\ args[s].tool = "fetch"
       /\ slots[s].rdoc.st = "failed")
    => /\ out[s].kind \in {"thrown", "error"}
       /\ out[s].files = <<>>

\* the second retrieval of a fetch of two identifiers failed after the
\* first one succeeded
C24_Witness ==
  \E s \in Sessions :
    /\ ~IsHandle /\ pc[s] = "idle" /\ args[s].tool = "fetch"
    /\ slots[s].rdoc.st = "failed"
    /\ Len(args[s].ids) = 2
    /\ Len(reqs[s]) = 2

\* C25: fetch is read-only against the Index: no step of a fetch invocation,
\* whether it retrieves by hash, falls back to the path or fails, adds,
\* removes or changes an Index entry.
C25_FetchLeavesIndexAlone ==
  [][\A s \in Sessions :
       (args[s].tool = "fetch" /\ pc[s] \in {"routed", "indexFetchWait", "fetchWait"}
          /\ pc'[s] \in {"indexFetchWait", "fetchWait", "idle"})
       => index' = index]_vars

\* a fetch returned one entry retrieved by the hash its Index holds and one
\* retrieved by path
C25_Witness ==
  \E s \in Sessions :
    /\ IndexFetchDone(s)
    /\ Len(args[s].ids) = 2 /\ Len(out[s].files) = 2
    /\ \E e \in index[s] : e.id = args[s].ids[1]
    /\ \A e \in index[s] : e.id # args[s].ids[2]

\* C26: at the end of every search, the Index entry under the id of each
\* record it returned has the path and the canonical URL of that record,
\* also when two items of the search carry the same content hash.
C26_EntryMatchesRecord ==
  \A s \in Sessions :
    (~IsHandle /\ pc[s] = "idle" /\ args[s].tool = "search"
       /\ out[s].kind = "results")
    => \A i \in 1..Len(out[s].results) :
         \E e \in index[s] :
           /\ e.id = out[s].results[i].id
           /\ e.path = out[s].results[i].path
           /\ e.html_url = out[s].results[i].url

\* the requests of s in which request i is repeated by a later one
RepeatedReqs(s) ==
  { i \in 1..Len(reqs[s]) : \E j \in 1..Len(reqs[s]) : i < j /\ reqs[s][i] = reqs[s][j] }

\* C27: within one search invocation each upstream endpoint is requested at
\* most once: no call is retried or repeated, so the commit list the branch
\* commit scan filters is the answer it checked to be a list.
C27_EachEndpointOnce ==
  \A s \in Sessions :
    (args[s].tool = "search" /\ pc[s] \in {"searchWait", "idle"})
    => RepeatedReqs(s) = {}

FetchIssued(s) == args[s].tool = "fetch" /\ pc[s] \in {"fetchWait", "idle"}

\* C28: the branch argument has no effect on fetch: for the same identifier
\* and any two branch values, unset included, handleFetch issues the same
\* upstream request and, for the same answer, returns the same Doc.
C28_BranchDoesNotAffectFetch ==
  \A s, t \in Sessions :
    (FetchIssued(s) /\ FetchIssued(t) /\ args[s].id = args[t].id)
    => /\ reqs[s] = reqs[t]
       /\ (pc[s] = "idle" /\ pc[t] = "idle"
             /\ slots[s].rdoc.resp = slots[t].rdoc.resp)
          => out[s] = out[t]

\* the same code identifier was fetched without a branch and on branch "b",
\* and both fetches returned the Doc of the same answer
C28_Witness ==
  /\ FetchIssued("s1") /\ FetchIssued("s2")
  /\ args["s1"].id = TagCode \o <<":", "a">> /\ args["s2"].id = args["s1"].id
  /\ args["s1"].branch = Undef /\ args["s2"].branch = <<"b">>
  /\ pc["s1"] = "idle" /\ pc["s2"] = "idle"
  /\ slots["s1"].rdoc.resp = slots["s2"].rdoc.resp
  /\ out["s1"].kind = "doc" /\ out["s1"].doc.text # <<>>

\* C29: provided every upstream call is eventually answered or fails, every
\* search and every fetch invocation eventually returns a result list, a
\* Doc or an error.
C29_EveryInvocationReturns ==
  \A s \in Sessions :
    (pc[s] \in {"routed", "searchWait", "fetchWait"})
      ~> (pc[s] = "idle" /\ out[s].kind \in {"results", "doc", "error", "thrown"})

\* a branch search returned after both scans stopped at LIMIT = 1 matches
\* of the two in their lists
C29_Witness ==
  \E s \in Sessions :
    /\ BranchSearchDone(s) /\ LIMIT = 1
    /\ Len(slots[s].rc.raw) = 2 /\ Len(slots[s].rcode.raw) = 2
    /\ Len(out[s].results) = 2

\* the limit each value of RESULTS_PER_CATEGORY stands for: the integer it
\* starts with when that is positive, otherwise the default
LimitExpected(e) ==
  CASE e = <<"3">> -> 3
    [] e = <<"1", "2">> -> 12
    [] e = <<" ", "7">> -> 7
    [] e = <<"3", "x">> -> 3
    [] OTHER -> 5

\* C30: after every routed request LIMIT is a positive integer: the integer
\* parsed from RESULTS_PER_CATEGORY when that is greater than 0, and 5 when
\* the variable is unset, not numeric, zero or negative.
C30_LimitIsPositive ==
  /\ LIMIT \in Nat /\ LIMIT > 0
  /\ (\E s \in Sessions : args[s].tool # "none") => LIMIT = LimitExpected(env)

\* a request was routed with RESULTS_PER_CATEGORY = "0" and searches with
\* per_page 5
C30_Witness ==
  \E s \in Sessions :
    /\ pc[s] = "searchWait" /\ env = <<"0">>
    /\ LIMIT = 5
    /\ reqs[s][1].per_page = 5

====
